---------------------------- MODULE Spec2Model ----------------------------
(***************************************************************************)
(* A model of btcd's configuration loader, src/config.go.                  *)
(*                                                                         *)
(* loadConfig is modelled statement block by statement block: the variable *)
(* pc is the position in loadConfig, cfg and preCfg are the two config     *)
(* structs, and out is what the run printed or logged, in order.  The      *)
(* command line, the configuration file and the environment (home          *)
(* directory, platform, resolver) are inputs fixed by Init.                *)
(*                                                                         *)
(* Strings the code takes apart (addresses, ports, the profile port) are   *)
(* sequences of one-character strings; strings the code only compares are  *)
(* TLA+ strings.                                                           *)
(***************************************************************************)
EXTENDS Integers, Sequences, FiniteSets, TLC

(***************************************************************************)
(* Bounds of the model.                                                    *)
(***************************************************************************)
\* btcdDial / btcdLookup calls made on a returned configuration
MaxCalls == 2
\* characters of an address drawn for normalizeAddresses
MaxAddrLen == 3
\* addresses in a list drawn for normalizeAddresses
MaxAddrs == 2

(***************************************************************************)
(* Program constants, src/config.go 27-45.  Durations are in milliseconds. *)
(***************************************************************************)
defaultLogLevel == <<"info">>
defaultBanDuration == 86400000
defaultDbType == "leveldb"
defaultBlockMinSize == 0
defaultBlockMaxSize == 750000
defaultBlockPrioritySize == 50000
blockMaxSizeMin == 1000
\* btcwire.MaxBlockPayload
MaxBlockPayload == 1000000
blockMaxSizeMax == MaxBlockPayload - 1000
\* time.Second, in milliseconds
Second == 1000

(***************************************************************************)
(* Strings as sequences of characters.                                     *)
(***************************************************************************)
Contains(s, c) == \E i \in 1..Len(s) : s[i] = c

\* strings.IndexByte / bytealg.IndexByteString, 1-based, 0 when absent
Index(s, c) ==
    IF Contains(s, c)
    THEN CHOOSE i \in 1..Len(s) : s[i] = c /\ \A j \in 1..(i-1) : s[j] # c
    ELSE 0

\* net.last, 1-based, 0 when absent
LastIndex(s, c) ==
    IF Contains(s, c)
    THEN CHOOSE i \in 1..Len(s) : s[i] = c /\ \A j \in (i+1)..Len(s) : s[j] # c
    ELSE 0

\* strings.HasSuffix
HasSuffix(s, suffix) ==
    /\ Len(s) >= Len(suffix)
    /\ SubSeq(s, Len(s) - Len(suffix) + 1, Len(s)) = suffix

onionSuffix == <<".", "o", "n", "i", "o", "n">>

(***************************************************************************)
(* net.SplitHostPort and net.JoinHostPort (Go standard library), as        *)
(* normalizeAddress calls them.                                            *)
(***************************************************************************)
SplitErr == [ok |-> FALSE, host |-> <<>>, port |-> <<>>]

SplitHostPort(hostport) ==
    LET i == LastIndex(hostport, ":") IN
    IF i = 0 THEN SplitErr                      \* missing port
    ELSE IF hostport[1] = "["
    THEN LET end == Index(hostport, "]") IN
         IF end = 0 THEN SplitErr               \* missing ']'
         ELSE IF end = Len(hostport) THEN SplitErr     \* missing port
         ELSE IF end + 1 # i THEN SplitErr      \* too many colons / missing port
         ELSE IF Contains(SubSeq(hostport, 2, Len(hostport)), "[") THEN SplitErr
         ELSE IF Contains(SubSeq(hostport, end + 1, Len(hostport)), "]") THEN SplitErr
         ELSE [ok |-> TRUE, host |-> SubSeq(hostport, 2, end - 1),
               port |-> SubSeq(hostport, i + 1, Len(hostport))]
    ELSE IF Contains(SubSeq(hostport, 1, i - 1), ":") THEN SplitErr  \* too many colons
         ELSE IF Contains(hostport, "[") THEN SplitErr
         ELSE IF Contains(hostport, "]") THEN SplitErr
         ELSE [ok |-> TRUE, host |-> SubSeq(hostport, 1, i - 1),
               port |-> SubSeq(hostport, i + 1, Len(hostport))]

JoinHostPort(host, port) ==
    IF Contains(host, ":")
    THEN <<"[">> \o host \o <<"]", ":">> \o port
    ELSE host \o <<":">> \o port

(***************************************************************************)
(* removeDuplicateAddresses, normalizeAddress, normalizeAddresses.         *)
(***************************************************************************)
RECURSIVE removeDuplicateAddressesFrom(_, _)
\* the loop of removeDuplicateAddresses: result so far, addresses left
removeDuplicateAddressesFrom(result, addrs) ==
    IF addrs = <<>> THEN result
    ELSE IF \E k \in 1..Len(result) : result[k] = Head(addrs)
         THEN removeDuplicateAddressesFrom(result, Tail(addrs))
         ELSE removeDuplicateAddressesFrom(Append(result, Head(addrs)), Tail(addrs))

removeDuplicateAddresses(addrs) == removeDuplicateAddressesFrom(<<>>, addrs)

normalizeAddress(addr, defaultPort) ==
    IF ~SplitHostPort(addr).ok
    THEN JoinHostPort(addr, defaultPort)
    ELSE addr

\* the loop of normalizeAddresses (255-257): the slice it was passed, whose
\* entries it overwrites
normalizedInPlace(addrs, defaultPort) ==
    [i \in 1..Len(addrs) |-> normalizeAddress(addrs[i], defaultPort)]

\* the new slice normalizeAddresses returns
normalizeAddresses(addrs, defaultPort) ==
    removeDuplicateAddresses(normalizedInPlace(addrs, defaultPort))

(***************************************************************************)
(* Paths, as sequences of characters with "/" the separator:               *)
(* filepath.Clean, filepath.Dir, filepath.Join and os.ExpandEnv (Go        *)
(* standard library) as the package variables, cleanAndExpandPath and      *)
(* loadConfig call them.                                                   *)
(***************************************************************************)
RECURSIVE SplitPath(_)
\* the elements of a path between its separators
SplitPath(path) ==
    LET i == Index(path, "/") IN
    IF i = 0 THEN <<path>>
    ELSE <<SubSeq(path, 1, i - 1)>> \o SplitPath(SubSeq(path, i + 1, Len(path)))

RECURSIVE JoinElements(_)
\* the elements with a separator between them
JoinElements(elems) ==
    IF elems = <<>> THEN <<>>
    ELSE IF Len(elems) = 1 THEN Head(elems)
    ELSE Head(elems) \o <<"/">> \o JoinElements(Tail(elems))

RECURSIVE CleanElements(_, _, _)
\* the loop of filepath.Clean: the elements written so far, those left
CleanElements(kept, left, rooted) ==
    IF left = <<>> THEN kept
    ELSE LET e == Head(left) IN
         IF e = <<>> \/ e = <<".">>
         THEN CleanElements(kept, Tail(left), rooted)
         ELSE IF e = <<".", ".">>
         THEN IF kept # <<>> /\ kept[Len(kept)] # <<".", ".">>
              THEN CleanElements(SubSeq(kept, 1, Len(kept) - 1), Tail(left), rooted)
              ELSE IF rooted
              THEN CleanElements(kept, Tail(left), rooted)
              ELSE CleanElements(Append(kept, e), Tail(left), rooted)
         ELSE CleanElements(Append(kept, e), Tail(left), rooted)

\* filepath.Clean
Clean(path) ==
    IF path = <<>> THEN <<".">>
    ELSE LET rooted == path[1] = "/"
             kept == CleanElements(<<>>, SplitPath(path), rooted)
             cleaned == (IF rooted THEN <<"/">> ELSE <<>>) \o JoinElements(kept)
         IN IF cleaned = <<>> THEN <<".">> ELSE cleaned

\* filepath.Dir
Dir(path) == Clean(SubSeq(path, 1, LastIndex(path, "/")))

\* filepath.Join of two elements
Join(dir, name) ==
    IF dir # <<>> THEN Clean(dir \o <<"/">> \o name)
    ELSE IF name # <<>> THEN Clean(name)
    ELSE <<>>

\* the environment of the process
environ ==
    (<<"H", "O", "M", "E">> :> <<"/", "h">>) @@ (<<"V">> :> <<"/", "v">>)

\* os.Getenv
Getenv(name) == IF name \in DOMAIN environ THEN environ[name] ELSE <<>>

\* os.isShellSpecialVar
isShellSpecialVar(c) ==
    c \in {"*", "#", "$", "@", "!", "?", "-",
           "0", "1", "2", "3", "4", "5", "6", "7", "8", "9"}

\* os.isAlphaNum
isAlphaNum(c) ==
    c \in {"_", "0", "1", "2", "3", "4", "5", "6", "7", "8", "9",
           "a", "b", "c", "d", "e", "f", "g", "h", "i", "j", "k", "l", "m",
           "n", "o", "p", "q", "r", "s", "t", "u", "v", "w", "x", "y", "z",
           "A", "B", "C", "D", "E", "F", "G", "H", "I", "J", "K", "L", "M",
           "N", "O", "P", "Q", "R", "S", "T", "U", "V", "W", "X", "Y", "Z"}

\* os.getShellName: the name that follows a "$" and the characters it takes
getShellName(s) ==
    IF s[1] = "{"
    THEN IF Len(s) > 2 /\ isShellSpecialVar(s[2]) /\ s[3] = "}"
         THEN [name |-> <<s[2]>>, w |-> 3]
         ELSE LET closing == {i \in 2..Len(s) : s[i] = "}"} IN
              IF closing = {} THEN [name |-> <<>>, w |-> 1]
              ELSE LET i == CHOOSE k \in closing : \A l \in closing : k <= l IN
                   IF i = 2 THEN [name |-> <<>>, w |-> 2]
                   ELSE [name |-> SubSeq(s, 2, i - 1), w |-> i]
    ELSE IF isShellSpecialVar(s[1]) THEN [name |-> <<s[1]>>, w |-> 1]
    ELSE LET n == CHOOSE k \in 0..Len(s) :
                     /\ \A l \in 1..k : isAlphaNum(s[l])
                     /\ k < Len(s) => ~isAlphaNum(s[k + 1])
         IN [name |-> SubSeq(s, 1, n), w |-> n]

RECURSIVE ExpandEnv(_)
\* os.ExpandEnv: os.Expand with os.Getenv
ExpandEnv(s) ==
    IF s = <<>> THEN <<>>
    ELSE IF s[1] = "$" /\ Len(s) > 1
    THEN LET rest == Tail(s)
             n == getShellName(rest)
             value == IF n.name = <<>> /\ n.w > 0 THEN <<>>
                      ELSE IF n.name = <<>> THEN <<"$">>
                      ELSE Getenv(n.name)
         IN value \o ExpandEnv(SubSeq(rest, n.w + 1, Len(rest)))
    ELSE <<s[1]>> \o ExpandEnv(Tail(s))

\* btcutil.AppDataDir("btcd", false): $HOME/.btcd
btcdHomeDir == Getenv(<<"H", "O", "M", "E">>) \o <<"/", ".", "b", "t", "c", "d">>
defaultConfigFile == Join(btcdHomeDir, <<"b", "t", "c", "d", ".", "c", "o", "n", "f">>)
defaultDataDir == Join(btcdHomeDir, <<"d", "a", "t", "a">>)
defaultLogDir == Join(btcdHomeDir, <<"l", "o", "g", "s">>)

\* cleanAndExpandPath, 121-131
cleanAndExpandPath(path) ==
    LET homeDir == Dir(btcdHomeDir)
        expanded == IF path # <<>> /\ path[1] = "~"
                    THEN homeDir \o Tail(path)
                    ELSE path
    IN Clean(ExpandEnv(expanded))

(***************************************************************************)
(* The config struct (src/config.go 64-111): the fields the load process   *)
(* reads or derives.  A dial or lookup function is a record naming what    *)
(* the function does and the proxy it goes through.                        *)
(***************************************************************************)
Fields ==
    {"ShowVersion", "ConfigFile", "DataDir", "LogDir", "AddPeers", "ConnectPeers", "DisableListen",
     "Listeners", "BanDuration", "RPCUser", "RPCPass", "RPCListeners",
     "DisableRPC", "DisableDNSSeed", "Proxy", "OnionProxy", "NoOnion",
     "TestNet3", "RegressionTest", "SimNet", "DbType", "Profile", "DebugLevel",
     "BlockMinSize", "BlockMaxSize", "BlockPrioritySize", "GetWorkKeys"}

\* the []string options: each occurrence of the option adds an entry
ListFields == {"AddPeers", "ConnectPeers", "Listeners", "RPCListeners", "GetWorkKeys"}

\* the fields loadConfig neither forces nor rewrites after the final parse
PlainFields ==
    {"ConfigFile", "BanDuration", "RPCUser", "RPCPass", "Proxy", "OnionProxy",
     "NoOnion", "TestNet3", "RegressionTest", "SimNet", "DbType", "Profile",
     "DebugLevel", "BlockMaxSize"}

Unset == [kind |-> "unset", via |-> ""]
netDial == [kind |-> "net.Dial", via |-> ""]
netLookupIP == [kind |-> "net.LookupIP", via |-> ""]
proxyDial(addr) == [kind |-> "socks.Dial", via |-> addr]
torLookupIP(addr) == [kind |-> "torLookupIP", via |-> addr]
torDisabled == [kind |-> "tor has been disabled", via |-> ""]

\* the default config, loadConfig 295-311
defaultConfig ==
    [ShowVersion |-> FALSE, ConfigFile |-> defaultConfigFile,
     DataDir |-> defaultDataDir, LogDir |-> defaultLogDir,
     AddPeers |-> <<>>, ConnectPeers |-> <<>>, DisableListen |-> FALSE,
     Listeners |-> <<>>, BanDuration |-> defaultBanDuration,
     RPCUser |-> "", RPCPass |-> "", RPCListeners |-> <<>>,
     DisableRPC |-> FALSE, DisableDNSSeed |-> FALSE,
     Proxy |-> "", OnionProxy |-> "", NoOnion |-> FALSE,
     TestNet3 |-> FALSE, RegressionTest |-> FALSE, SimNet |-> FALSE,
     DbType |-> defaultDbType, Profile |-> <<>>, DebugLevel |-> defaultLogLevel,
     BlockMinSize |-> defaultBlockMinSize, BlockMaxSize |-> defaultBlockMaxSize,
     BlockPrioritySize |-> defaultBlockPrioritySize, GetWorkKeys |-> <<>>,
     dial |-> Unset, lookup |-> Unset, oniondial |-> Unset, onionlookup |-> Unset]

(***************************************************************************)
(* A source (the command line, the configuration file) is the record of    *)
(* the options it sets.  Parsing a source into a config struct, as         *)
(* go-flags does for parser.Parse and IniParser.ParseFile: an option the   *)
(* source sets overwrites the field, a list option adds its entries, and   *)
(* a field the source does not set keeps its value.                        *)
(***************************************************************************)
parseInto(c, source) ==
    [f \in DOMAIN c |->
        IF f \in DOMAIN source
        THEN IF f \in ListFields THEN c[f] \o source[f] ELSE source[f]
        ELSE c[f]]

(***************************************************************************)
(* The network parameters (activeNetParams): the package starts on the     *)
(* main network.                                                           *)
(***************************************************************************)
port8333 == <<"8", "3", "3", "3">>
port8334 == <<"8", "3", "3", "4">>
port18333 == <<"1", "8", "3", "3", "3">>
port18334 == <<"1", "8", "3", "3", "4">>
port18444 == <<"1", "8", "4", "4", "4">>
port18555 == <<"1", "8", "5", "5", "5">>
port18556 == <<"1", "8", "5", "5", "6">>

mainNetParams == [name |-> "mainnet", DefaultPort |-> port8333, rpcPort |-> port8334]
testNet3Params == [name |-> "testnet", DefaultPort |-> port18333, rpcPort |-> port18334]
regressionNetParams == [name |-> "regtest", DefaultPort |-> port18444, rpcPort |-> port18334]
simNetParams == [name |-> "simnet", DefaultPort |-> port18555, rpcPort |-> port18556]

\* activeNetParams before loadConfig runs: the main network
initialNetParams == "mainnet"

\* the network an activeNetParams value stands for
netParams(net) ==
    CASE net = "mainnet" -> mainNetParams
      [] net = "testnet" -> testNet3Params
      [] net = "regtest" -> regressionNetParams
      [] net = "simnet" -> simNetParams

\* netName: the name of the network, the path element that namespaces the
\* data and log directories
netName(net) ==
    CASE net = "mainnet" -> <<"m", "a", "i", "n", "n", "e", "t">>
      [] net = "testnet" -> <<"t", "e", "s", "t", "n", "e", "t">>
      [] net = "regtest" -> <<"r", "e", "g", "t", "e", "s", "t">>
      [] net = "simnet" -> <<"s", "i", "m", "n", "e", "t">>

(***************************************************************************)
(* Input values.                                                           *)
(***************************************************************************)
a1234 == <<"1", ".", "2", ".", "3", ".", "4">>
a5678 == <<"5", ".", "6", ".", "7", ".", "8">>
a1234p == a1234 \o <<":">> \o port8333
ip4Loopback == <<"1", "2", "7", ".", "0", ".", "0", ".", "1">>
ip6Loopback == <<":", ":", "1">>
ip6Bracketed == <<"[", ":", ":", "1", "]">>
xyzOnion == <<"x", "y", "z">> \o onionSuffix
xyzOnionPort == xyzOnion \o <<":">> \o port8333

customConfigFile == <<"/", "e", "t", "c", "/", "b", ".", "c", "o", "n", "f">>

\* the options of a source: none, or one of vals for option f
Opt(f, vals) == {<<>>} \cup {f :> v : v \in vals}

NoOptions == <<>>

\* the environment in which nothing goes wrong.  A command line with an
\* argument the parser rejects (argsErr) has the options of argsBefore in
\* front of that argument and its other options behind it.
Env ==
    [argsErr |-> "none", argsBefore |-> {}, fileStatus |-> "ok",
     homeDirOk |-> TRUE, windows |-> FALSE, svcErr |-> FALSE,
     lookupErr |-> FALSE, localhost |-> <<ip4Loopback>>]

Input(args, file, env) == [args |-> args, file |-> file] @@ env

(***************************************************************************)
(* State.                                                                  *)
(*   in               the command line, the file and the environment       *)
(*   pc               the position in loadConfig; "done" after it ended    *)
(*   cfg, preCfg      the config structs of loadConfig                     *)
(*   serviceOpts      serviceOpts.ServiceCommand                           *)
(*   activeNetParams  the package variable, by network name                *)
(*   configFileError  whether the deferred file error is set               *)
(*   ret              "" while running, "cfg" for (&cfg, args, nil),       *)
(*                    "nil" for (nil, nil, err), "exit0" for os.Exit(0)    *)
(*   err              the error returned, by the check that raised it      *)
(*   out              what was printed, logged or read, in order           *)
(*   call, ncalls     the last btcdDial / btcdLookup call and their count  *)
(*   norm             a run of normalizeAddresses on its own               *)
(***************************************************************************)
VARIABLES in, pc, cfg, preCfg, serviceOpts, activeNetParams, configFileError,
          ret, err, out, call, ncalls, norm

vars == <<in, pc, cfg, preCfg, serviceOpts, activeNetParams, configFileError,
          ret, err, out, call, ncalls, norm>>

NoCall == [fn |-> "", dest |-> <<>>, used |-> Unset]
NoNorm == [stage |-> "idle", addrs |-> <<>>, port |-> <<>>, once |-> <<>>, twice |-> <<>>]

\* fmt.Fprintln(os.Stderr, err); parser.WriteHelp(os.Stderr)
errorAndUsage == <<"stderr", "usage">>

(***************************************************************************)
(* loadConfig, 316-321: create the home directory.                         *)
(***************************************************************************)
MkHomeDir ==
    /\ pc = "mkdir"
    /\ IF in.homeDirOk
       THEN /\ pc' = "preparse"
            /\ UNCHANGED <<ret, err, out>>
       ELSE /\ pc' = "done"
            /\ ret' = "nil"
            /\ err' = "mkdir"
            /\ out' = Append(out, "log:error")
    /\ UNCHANGED <<in, cfg, preCfg, serviceOpts, activeNetParams,
                   configFileError, call, ncalls, norm>>

(***************************************************************************)
(* loadConfig, 323-328: the pre-parse of the command line, errors ignored. *)
(* The service options are part of the parser on Windows only.             *)
(* parser.Parse stops at the first argument it rejects: the options in     *)
(* front of it are set, those behind it are not.  The pre-parse            *)
(* (flags.None) rejects what the final parse rejects, the help flag        *)
(* included.                                                               *)
(***************************************************************************)
\* the options of the command line that parser.Parse sets
parsedArgs ==
    IF in.argsErr = "none" THEN in.args
    ELSE [f \in DOMAIN in.args \cap in.argsBefore |-> in.args[f]]

PreParse ==
    /\ pc = "preparse"
    /\ preCfg' = parseInto(cfg, parsedArgs)
    /\ serviceOpts' = IF in.windows /\ "ServiceCommand" \in DOMAIN parsedArgs
                      THEN parsedArgs["ServiceCommand"]
                      ELSE ""
    /\ pc' = "version"
    /\ UNCHANGED <<in, cfg, activeNetParams, configFileError, ret, err, out,
                   call, ncalls, norm>>

(***************************************************************************)
(* loadConfig, 330-336: show the version and exit.                         *)
(***************************************************************************)
ShowVersion ==
    /\ pc = "version"
    /\ IF preCfg.ShowVersion
       THEN /\ pc' = "done"
            /\ ret' = "exit0"
            /\ out' = Append(out, "stdout:version")
       ELSE /\ pc' = "service"
            /\ UNCHANGED <<ret, out>>
    /\ UNCHANGED <<in, cfg, preCfg, serviceOpts, activeNetParams,
                   configFileError, err, call, ncalls, norm>>

(***************************************************************************)
(* loadConfig, 338-347: run the service command and exit.                  *)
(* runServiceCommand is non-nil on Windows only.                           *)
(***************************************************************************)
ServiceCommand ==
    /\ pc = "service"
    /\ IF serviceOpts # "" /\ in.windows
       THEN /\ pc' = "done"
            /\ ret' = "exit0"
            /\ out' = out \o (IF in.svcErr THEN <<"service", "stderr">>
                                           ELSE <<"service">>)
       ELSE /\ pc' = "loadfile"
            /\ UNCHANGED <<ret, out>>
    /\ UNCHANGED <<in, cfg, preCfg, serviceOpts, activeNetParams,
                   configFileError, err, call, ncalls, norm>>

(***************************************************************************)
(* loadConfig, 349-364: load the configuration file.  ParseFile fails with *)
(* an *os.PathError when the file cannot be opened (it is missing, or it   *)
(* is there and unreadable) and with another error when it is malformed.   *)
(***************************************************************************)
isPathError(status) == status \in {"missing", "unreadable"}

LoadFile ==
    /\ pc = "loadfile"
    /\ IF ~(preCfg.RegressionTest \/ preCfg.SimNet)
          \/ preCfg.ConfigFile # defaultConfigFile
       THEN IF in.fileStatus = "ok"
            THEN /\ cfg' = parseInto(cfg, in.file)
                 /\ out' = Append(out, "readfile")
                 /\ pc' = "droppeers"
                 /\ UNCHANGED <<configFileError, ret, err>>
            ELSE IF ~isPathError(in.fileStatus)
            THEN /\ out' = out \o <<"readfile">> \o errorAndUsage
                 /\ pc' = "done"
                 /\ ret' = "nil"
                 /\ err' = "file"
                 /\ UNCHANGED <<cfg, configFileError>>
            ELSE /\ configFileError' = TRUE
                 /\ out' = Append(out, "readfile")
                 /\ pc' = "droppeers"
                 /\ UNCHANGED <<cfg, ret, err>>
       ELSE /\ pc' = "droppeers"
            /\ UNCHANGED <<cfg, configFileError, ret, err, out>>
    /\ UNCHANGED <<in, preCfg, serviceOpts, activeNetParams, call, ncalls, norm>>

(***************************************************************************)
(* loadConfig, 366-369: no peers from the file in regression test mode.    *)
(***************************************************************************)
DropFilePeers ==
    /\ pc = "droppeers"
    /\ cfg' = IF preCfg.RegressionTest /\ Len(cfg.AddPeers) > 0
              THEN [cfg EXCEPT !.AddPeers = <<>>]
              ELSE cfg
    /\ pc' = "parse"
    /\ UNCHANGED <<in, preCfg, serviceOpts, activeNetParams, configFileError,
                   ret, err, out, call, ncalls, norm>>

(***************************************************************************)
(* loadConfig, 371-378: the final parse of the command line.  The parser   *)
(* (flags.Default) prints the error it returns; loadConfig adds the usage  *)
(* unless the error is a help request.                                     *)
(***************************************************************************)
FinalParse ==
    /\ pc = "parse"
    /\ IF in.argsErr = "none"
       THEN /\ cfg' = parseInto(cfg, in.args)
            /\ out' = Append(out, "parse")
            /\ pc' = "numnets"
            /\ UNCHANGED <<ret, err>>
       ELSE /\ out' = out \o <<"parse", "stderr">>
                          \o (IF in.argsErr # "help" THEN <<"usage">> ELSE <<>>)
            /\ pc' = "done"
            /\ ret' = "nil"
            /\ err' = in.argsErr
            /\ cfg' = parseInto(cfg, parsedArgs)
    /\ UNCHANGED <<in, preCfg, serviceOpts, activeNetParams, configFileError,
                   call, ncalls, norm>>

(***************************************************************************)
(* loadConfig, 380-398: at most one network.                               *)
(***************************************************************************)
\* numNets with a slip: the simulation network is not counted
numNetsWithoutSimNet(c) ==
    (IF c.TestNet3 THEN 1 ELSE 0) + (IF c.RegressionTest THEN 1 ELSE 0)

numNets(c) ==
    (IF c.TestNet3 THEN 1 ELSE 0) + (IF c.RegressionTest THEN 1 ELSE 0)
        + (IF c.SimNet THEN 1 ELSE 0)

CheckNetworks ==
    /\ pc = "numnets"
    /\ IF numNets(cfg) > 1
       THEN /\ out' = out \o errorAndUsage
            /\ pc' = "done"
            /\ ret' = "nil"
            /\ err' = "networks"
       ELSE /\ pc' = "selectnet"
            /\ UNCHANGED <<ret, err, out>>
    /\ UNCHANGED <<in, cfg, preCfg, serviceOpts, activeNetParams,
                   configFileError, call, ncalls, norm>>

(***************************************************************************)
(* loadConfig, 400-410: choose the active network.                         *)
(***************************************************************************)
selectedNet(c, current) ==
    CASE c.TestNet3 -> "testnet"
      [] ~c.TestNet3 /\ c.RegressionTest -> "regtest"
      [] ~c.TestNet3 /\ ~c.RegressionTest /\ c.SimNet -> "simnet"
      [] OTHER -> current

SelectNetwork ==
    /\ pc = "selectnet"
    /\ activeNetParams' = selectedNet(cfg, activeNetParams)
    /\ cfg' = IF ~cfg.TestNet3 /\ ~cfg.RegressionTest /\ cfg.SimNet
              THEN [cfg EXCEPT !.DisableDNSSeed = TRUE]
              ELSE cfg
    /\ pc' = "dirs"
    /\ UNCHANGED <<in, preCfg, serviceOpts, configFileError, ret, err, out,
                   call, ncalls, norm>>

(***************************************************************************)
(* loadConfig, 412-424: the data and the log directory are cleaned,        *)
(* expanded and given the name of the active network as their last         *)
(* element.                                                                *)
(***************************************************************************)
withDirsNamespaced(c, net) ==
    [c EXCEPT !.DataDir = Join(cleanAndExpandPath(c.DataDir), netName(net)),
              !.LogDir = Join(cleanAndExpandPath(c.LogDir), netName(net))]

NamespaceDirs ==
    /\ pc = "dirs"
    /\ cfg' = withDirsNamespaced(cfg, activeNetParams)
    /\ pc' = "show"
    /\ UNCHANGED <<in, preCfg, serviceOpts, activeNetParams, configFileError,
                   ret, err, out, call, ncalls, norm>>

(***************************************************************************)
(* validLogLevel, parseAndSetDebugLevels (133-215).  A debug level string  *)
(* is the sequence of its words and delimiters ("," and "="); the          *)
(* operator gives the error returned, "" for nil.  The levels it sets in   *)
(* the loggers are not part of the model.                                  *)
(***************************************************************************)
validLogLevel(logLevel) ==
    logLevel \in {<<"trace">>, <<"debug">>, <<"info">>, <<"warn">>,
                  <<"error">>, <<"critical">>}

\* the keys of subsystemLoggers
subsystemLoggers == {"AMGR", "BCDB", "BMGR", "BTCD", "PEER", "RPCS", "SRVR", "TXMP"}

RECURSIVE SplitFrom(_, _, _)
SplitFrom(cur, rest, sep) ==
    IF rest = <<>> THEN <<cur>>
    ELSE IF Head(rest) = sep
         THEN <<cur>> \o SplitFrom(<<>>, Tail(rest), sep)
         ELSE SplitFrom(Append(cur, Head(rest)), Tail(rest), sep)

\* strings.Split
Split(s, sep) == SplitFrom(<<>>, s, sep)

RECURSIVE parseLevelPairs(_)
parseLevelPairs(pairs) ==
    IF pairs = <<>> THEN ""
    ELSE LET logLevelPair == Head(pairs)
             fields == Split(logLevelPair, "=")
         IN IF ~Contains(logLevelPair, "=")
            THEN "invalid subsystem/level pair"
            ELSE IF ~(Len(fields[1]) = 1 /\ fields[1][1] \in subsystemLoggers)
            THEN "invalid subsystem"
            ELSE IF ~validLogLevel(fields[2])
            THEN "invalid debug level"
            ELSE parseLevelPairs(Tail(pairs))

parseAndSetDebugLevels(debugLevel) ==
    IF ~Contains(debugLevel, ",") /\ ~Contains(debugLevel, "=")
    THEN IF ~validLogLevel(debugLevel) THEN "invalid debug level" ELSE ""
    ELSE parseLevelPairs(Split(debugLevel, ","))

\* btcdb.SupportedDBs() with the ldb and memdb drivers imported (10-12)
knownDbTypes == {"leveldb", "memdb"}

validDbType(dbType) == dbType \in knownDbTypes

(***************************************************************************)
(* strconv.Atoi on a string of characters: an optional sign and digits.    *)
(***************************************************************************)
Digits == <<"0", "1", "2", "3", "4", "5", "6", "7", "8", "9">>
IsDigit(c) == \E i \in 1..10 : Digits[i] = c
DigitVal(c) == (CHOOSE i \in 1..10 : Digits[i] = c) - 1

\* An int (64 bits) is held as its decimal numeral: a sign and the digits
\* of its magnitude without leading zeros.
Numeral(neg, mag) == [neg |-> neg /\ mag # <<"0">>, mag |-> mag]

RECURSIVE StripZeros(_)
\* the digits without their leading zeros, one digit at least
StripZeros(digits) ==
    IF Len(digits) > 1 /\ Head(digits) = "0" THEN StripZeros(Tail(digits)) ELSE digits

\* a < b, for magnitudes without leading zeros
MagLess(a, b) ==
    \/ Len(a) < Len(b)
    \/ /\ Len(a) = Len(b)
       /\ \E i \in 1..Len(a) : /\ DigitVal(a[i]) < DigitVal(b[i])
                               /\ \A j \in 1..(i-1) : a[j] = b[j]

\* x < y, for ints
IntLess(x, y) ==
    IF x.neg # y.neg THEN x.neg
    ELSE IF x.neg THEN MagLess(y.mag, x.mag)
    ELSE MagLess(x.mag, y.mag)

\* 1<<63 - 1 and -1<<63, the bounds of an int
maxInt64 == Numeral(FALSE, <<"9", "2", "2", "3", "3", "7", "2", "0", "3", "6",
                         "8", "5", "4", "7", "7", "5", "8", "0", "7">>)
minInt64 == Numeral(TRUE, <<"9", "2", "2", "3", "3", "7", "2", "0", "3", "6",
                        "8", "5", "4", "7", "7", "5", "8", "0", "8">>)

\* 1<<64 - 1, the largest magnitude strconv.ParseUint holds
maxUint64 == <<"1", "8", "4", "4", "6", "7", "4", "4", "0", "7",
               "3", "7", "0", "9", "5", "5", "1", "6", "1", "5">>

\* strconv.Atoi: the value, and the error ("" for nil).  The characters are
\* read from the left: ErrSyntax for an empty string, a lone sign or the
\* first character that is no digit; ErrRange with the nearest bound once
\* the digits read exceed 64 bits, whatever follows them, and for a value an
\* int cannot hold.
Atoi(s) ==
    LET signed == s # <<>> /\ Head(s) \in {"+", "-"}
        neg == signed /\ Head(s) = "-"
        digits == IF signed THEN Tail(s) ELSE s
        n == CHOOSE k \in 0..Len(digits) :
                /\ \A i \in 1..k : IsDigit(digits[i])
                /\ k < Len(digits) => ~IsDigit(digits[k + 1])
        read == SubSeq(digits, 1, n)
        bound == IF neg THEN minInt64 ELSE maxInt64
    IN IF digits = <<>>
       THEN [ok |-> FALSE, err |-> "ErrSyntax", val |-> Numeral(FALSE, <<"0">>)]
       ELSE IF n > 0 /\ MagLess(maxUint64, StripZeros(read))
       THEN [ok |-> FALSE, err |-> "ErrRange", val |-> bound]
       ELSE IF n < Len(digits)
       THEN [ok |-> FALSE, err |-> "ErrSyntax", val |-> Numeral(FALSE, <<"0">>)]
       ELSE LET v == Numeral(neg, StripZeros(digits))
            IN IF IntLess(maxInt64, v)
               THEN [ok |-> FALSE, err |-> "ErrRange", val |-> maxInt64]
               ELSE IF IntLess(v, minInt64)
               THEN [ok |-> FALSE, err |-> "ErrRange", val |-> minInt64]
               ELSE [ok |-> TRUE, err |-> "", val |-> v]

minUint32(a, b) == IF a < b THEN a ELSE b

(***************************************************************************)
(* btcutil.DecodeAddress and Address.IsForNet, by their outcome: a payment *)
(* address string either fails to decode or decodes to an address of one   *)
(* network.                                                                *)
(***************************************************************************)
DecodeAddress(strAddr) == [ok |-> strAddr.valid, net |-> strAddr.net]

RECURSIVE checkKeys(_, _)
\* the loop of 543-560: the error of the first key that fails, "" for none
checkKeys(keys, net) ==
    IF keys = <<>> THEN ""
    ELSE IF ~DecodeAddress(Head(keys)).ok THEN "getworkkey decode"
    ELSE IF DecodeAddress(Head(keys)).net # net THEN "getworkkey network"
    ELSE checkKeys(Tail(keys), net)

(***************************************************************************)
(* loadConfig, 426-434: the "show" debug level lists the subsystems and    *)
(* exits; otherwise logging starts at the default level.                   *)
(***************************************************************************)
ShowSubsystems ==
    /\ pc = "show"
    /\ IF cfg.DebugLevel = <<"show">>
       THEN /\ pc' = "done"
            /\ ret' = "exit0"
            /\ out' = Append(out, "stdout:subsystems")
       ELSE /\ pc' = "debuglevel"
            /\ UNCHANGED <<ret, out>>
    /\ UNCHANGED <<in, cfg, preCfg, serviceOpts, activeNetParams,
                   configFileError, err, call, ncalls, norm>>

(***************************************************************************)
(* loadConfig, 436-442: the debug level.                                   *)
(***************************************************************************)
CheckDebugLevel ==
    /\ pc = "debuglevel"
    /\ IF parseAndSetDebugLevels(cfg.DebugLevel) # ""
       THEN /\ out' = out \o errorAndUsage
            /\ pc' = "done"
            /\ ret' = "nil"
            /\ err' = "debuglevel"
       ELSE /\ pc' = "dbtype"
            /\ UNCHANGED <<ret, err, out>>
    /\ UNCHANGED <<in, cfg, preCfg, serviceOpts, activeNetParams,
                   configFileError, call, ncalls, norm>>

(***************************************************************************)
(* loadConfig, 444-452: the database type.                                 *)
(***************************************************************************)
\* CheckDbType with a slip: the error is reported and the checks go on
CheckDbTypeAndGoOn ==
    /\ pc = "dbtype"
    /\ IF ~validDbType(cfg.DbType)
       THEN /\ out' = out \o errorAndUsage
            /\ err' = "dbtype"
       ELSE UNCHANGED <<err, out>>
    /\ pc' = "profile"
    /\ UNCHANGED <<in, cfg, preCfg, serviceOpts, activeNetParams,
                   configFileError, ret, call, ncalls, norm>>

CheckDbType ==
    /\ pc = "dbtype"
    /\ IF ~validDbType(cfg.DbType)
       THEN /\ out' = out \o errorAndUsage
            /\ pc' = "done"
            /\ ret' = "nil"
            /\ err' = "dbtype"
       ELSE /\ pc' = "profile"
            /\ UNCHANGED <<ret, err, out>>
    /\ UNCHANGED <<in, cfg, preCfg, serviceOpts, activeNetParams,
                   configFileError, call, ncalls, norm>>

(***************************************************************************)
(* loadConfig, 454-464: the profile port.                                  *)
(***************************************************************************)
badProfilePort(profile) ==
    LET profilePort == Atoi(profile)
    IN \/ ~profilePort.ok
       \/ IntLess(profilePort.val, Numeral(FALSE, <<"1", "0", "2", "4">>))
       \/ IntLess(Numeral(FALSE, <<"6", "5", "5", "3", "5">>), profilePort.val)

CheckProfile ==
    /\ pc = "profile"
    /\ IF cfg.Profile # <<>> /\ badProfilePort(cfg.Profile)
       THEN /\ out' = out \o errorAndUsage
            /\ pc' = "done"
            /\ ret' = "nil"
            /\ err' = "profile"
       ELSE /\ pc' = "banduration"
            /\ UNCHANGED <<ret, err, out>>
    /\ UNCHANGED <<in, cfg, preCfg, serviceOpts, activeNetParams,
                   configFileError, call, ncalls, norm>>

(***************************************************************************)
(* loadConfig, 466-473: the ban duration.                                  *)
(***************************************************************************)
CheckBanDuration ==
    /\ pc = "banduration"
    /\ IF cfg.BanDuration < Second
       THEN /\ out' = out \o errorAndUsage
            /\ pc' = "done"
            /\ ret' = "nil"
            /\ err' = "banduration"
       ELSE /\ pc' = "addconnect"
            /\ UNCHANGED <<ret, err, out>>
    /\ UNCHANGED <<in, cfg, preCfg, serviceOpts, activeNetParams,
                   configFileError, call, ncalls, norm>>

(***************************************************************************)
(* loadConfig, 475-483: --addpeer and --connect do not mix.                *)
(***************************************************************************)
\* addAndConnectMixed with a slip: one peer of each kind is let through
addAndConnectMixedTwice(c) == Len(c.AddPeers) > 1 /\ Len(c.ConnectPeers) > 0

addAndConnectMixed(c) == Len(c.AddPeers) > 0 /\ Len(c.ConnectPeers) > 0

CheckAddConnect ==
    /\ pc = "addconnect"
    /\ IF addAndConnectMixed(cfg)
       THEN /\ out' = out \o errorAndUsage
            /\ pc' = "done"
            /\ ret' = "nil"
            /\ err' = "addconnect"
       ELSE /\ pc' = "listen"
            /\ UNCHANGED <<ret, err, out>>
    /\ UNCHANGED <<in, cfg, preCfg, serviceOpts, activeNetParams,
                   configFileError, call, ncalls, norm>>

(***************************************************************************)
(* loadConfig, 485-503: listening, DNS seeding, the default listener.      *)
(***************************************************************************)
\* withListenDefaults with a slip: the default listener is added first
withListenDefaultsListenerFirst(c, net) ==
    LET c1 == IF Len(c.Listeners) = 0
              THEN [c EXCEPT !.Listeners =
                                <<JoinHostPort(<<>>, netParams(net).DefaultPort)>>]
              ELSE c
        c2 == IF (c1.Proxy # "" \/ Len(c1.ConnectPeers) > 0) /\ Len(c1.Listeners) = 0
              THEN [c1 EXCEPT !.DisableListen = TRUE]
              ELSE c1
    IN IF Len(c2.ConnectPeers) > 0
       THEN [c2 EXCEPT !.DisableDNSSeed = TRUE]
       ELSE c2

withListenDefaults(c, net) ==
    LET c1 == IF (c.Proxy # "" \/ Len(c.ConnectPeers) > 0) /\ Len(c.Listeners) = 0
              THEN [c EXCEPT !.DisableListen = TRUE]
              ELSE c
        c2 == IF Len(c1.ConnectPeers) > 0
              THEN [c1 EXCEPT !.DisableDNSSeed = TRUE]
              ELSE c1
    IN IF Len(c2.Listeners) = 0
       THEN [c2 EXCEPT !.Listeners = <<JoinHostPort(<<>>, netParams(net).DefaultPort)>>]
       ELSE c2

SetListenDefaults ==
    /\ pc = "listen"
    /\ cfg' = withListenDefaults(cfg, activeNetParams)
    /\ pc' = "rpc"
    /\ UNCHANGED <<in, preCfg, serviceOpts, activeNetParams, configFileError,
                   ret, err, out, call, ncalls, norm>>

(***************************************************************************)
(* loadConfig, 505-522: the RPC server is off without a user or a          *)
(* password; without RPC listeners it listens on what localhost resolves   *)
(* to.  A failed lookup returns the error and prints nothing.              *)
(***************************************************************************)
withRPCDisabled(c) ==
    IF c.RPCUser = "" \/ c.RPCPass = "" THEN [c EXCEPT !.DisableRPC = TRUE] ELSE c

\* localhostListeners with a slip: the peer port instead of the RPC port
localhostListenersOnDefaultPort(addrs, net) ==
    [i \in 1..Len(addrs) |-> JoinHostPort(addrs[i], netParams(net).DefaultPort)]

localhostListeners(addrs, net) ==
    [i \in 1..Len(addrs) |-> JoinHostPort(addrs[i], netParams(net).rpcPort)]

SetRPCDefaults ==
    /\ pc = "rpc"
    /\ LET c == withRPCDisabled(cfg)
       IN IF ~c.DisableRPC /\ Len(c.RPCListeners) = 0
          THEN IF in.lookupErr
               THEN /\ cfg' = c
                    /\ out' = Append(out, "lookup:localhost")
                    /\ pc' = "done"
                    /\ ret' = "nil"
                    /\ err' = "lookup"
               ELSE /\ cfg' = [c EXCEPT !.RPCListeners =
                                  localhostListeners(in.localhost, activeNetParams)]
                    /\ out' = Append(out, "lookup:localhost")
                    /\ pc' = "blocksize"
                    /\ UNCHANGED <<ret, err>>
          ELSE /\ cfg' = c
               /\ pc' = "blocksize"
               /\ UNCHANGED <<ret, err, out>>
    /\ UNCHANGED <<in, preCfg, serviceOpts, activeNetParams, configFileError,
                   call, ncalls, norm>>

(***************************************************************************)
(* loadConfig, 524-539: the block sizes.                                   *)
(***************************************************************************)
blockMaxSizeOutOfRange(c) ==
    c.BlockMaxSize < blockMaxSizeMin \/ c.BlockMaxSize > blockMaxSizeMax

\* withBlockSizesLimited with a slip: the minimum size is not limited
withPrioritySizeLimited(c) ==
    [c EXCEPT !.BlockPrioritySize = minUint32(c.BlockPrioritySize, c.BlockMaxSize)]

withBlockSizesLimited(c) ==
    LET c1 == [c EXCEPT !.BlockPrioritySize =
                            minUint32(c.BlockPrioritySize, c.BlockMaxSize)]
    IN [c1 EXCEPT !.BlockMinSize = minUint32(c1.BlockMinSize, c1.BlockMaxSize)]

CheckBlockSizes ==
    /\ pc = "blocksize"
    /\ IF blockMaxSizeOutOfRange(cfg)
       THEN /\ out' = out \o errorAndUsage
            /\ pc' = "done"
            /\ ret' = "nil"
            /\ err' = "blockmaxsize"
            /\ UNCHANGED cfg
       ELSE /\ cfg' = withBlockSizesLimited(cfg)
            /\ pc' = "keys"
            /\ UNCHANGED <<ret, err, out>>
    /\ UNCHANGED <<in, preCfg, serviceOpts, activeNetParams, configFileError,
                   call, ncalls, norm>>

(***************************************************************************)
(* loadConfig, 541-560: the getwork payment addresses.                     *)
(***************************************************************************)
CheckKeys ==
    /\ pc = "keys"
    /\ LET e == checkKeys(cfg.GetWorkKeys, activeNetParams)
       IN IF e # ""
          THEN /\ out' = out \o errorAndUsage
               /\ pc' = "done"
               /\ ret' = "nil"
               /\ err' = e
          ELSE /\ pc' = "normalize"
               /\ UNCHANGED <<ret, err, out>>
    /\ UNCHANGED <<in, cfg, preCfg, serviceOpts, activeNetParams,
                   configFileError, call, ncalls, norm>>

(***************************************************************************)
(* loadConfig, 562-577: default ports and no duplicates in the lists.      *)
(***************************************************************************)
withAddressesNormalized(c, net) ==
    [c EXCEPT
        !.Listeners = normalizeAddresses(c.Listeners, netParams(net).DefaultPort),
        !.RPCListeners = normalizeAddresses(c.RPCListeners, netParams(net).rpcPort),
        !.AddPeers = normalizeAddresses(c.AddPeers, netParams(net).DefaultPort),
        !.ConnectPeers = normalizeAddresses(c.ConnectPeers, netParams(net).DefaultPort)]

NormalizeLists ==
    /\ pc = "normalize"
    /\ cfg' = withAddressesNormalized(cfg, activeNetParams)
    /\ pc' = "strategies"
    /\ UNCHANGED <<in, preCfg, serviceOpts, activeNetParams, configFileError,
                   ret, err, out, call, ncalls, norm>>

(***************************************************************************)
(* loadConfig, 579-635: the dial and lookup functions.                     *)
(***************************************************************************)
\* 585-599
withNormalStrategies(c) ==
    [c EXCEPT
        !.dial = IF c.Proxy # "" THEN proxyDial(c.Proxy) ELSE netDial,
        !.lookup = IF c.Proxy # "" /\ ~c.NoOnion THEN torLookupIP(c.Proxy)
                                                 ELSE netLookupIP]

\* 609-624
withOnionStrategies(c) ==
    IF c.OnionProxy # ""
    THEN [c EXCEPT !.oniondial = proxyDial(c.OnionProxy),
                   !.onionlookup = torLookupIP(c.OnionProxy)]
    ELSE [c EXCEPT !.oniondial = c.dial, !.onionlookup = c.lookup]

\* 626-635
\* withNoOnion with a slip: only the onion dial function is replaced
withNoOnionDial(c) ==
    IF c.NoOnion THEN [c EXCEPT !.oniondial = torDisabled] ELSE c

withNoOnion(c) ==
    IF c.NoOnion
    THEN [c EXCEPT !.oniondial = torDisabled, !.onionlookup = torDisabled]
    ELSE c

withStrategies(c) == withNoOnion(withOnionStrategies(withNormalStrategies(c)))

BuildStrategies ==
    /\ pc = "strategies"
    /\ cfg' = withStrategies(cfg)
    /\ pc' = "warn"
    /\ UNCHANGED <<in, preCfg, serviceOpts, activeNetParams, configFileError,
                   ret, err, out, call, ncalls, norm>>

(***************************************************************************)
(* loadConfig, 637-644: the deferred warning, and the return.              *)
(***************************************************************************)
WarnAndReturn ==
    /\ pc = "warn"
    /\ out' = IF configFileError THEN Append(out, "log:warn") ELSE out
    /\ pc' = "done"
    /\ ret' = "cfg"
    /\ UNCHANGED <<in, cfg, preCfg, serviceOpts, activeNetParams,
                   configFileError, err, call, ncalls, norm>>

(***************************************************************************)
(* btcdDial and btcdLookup (647-671) on the returned configuration: the    *)
(* call records the function the destination was handed to.                *)
(***************************************************************************)
\* dialFor with a slip: the suffix is looked for anywhere in the address
dialForContains(c, address) ==
    IF \E i \in 1..Len(address) : HasSuffix(SubSeq(address, 1, i), onionSuffix)
    THEN c.oniondial
    ELSE c.dial

dialFor(c, address) ==
    IF HasSuffix(address, onionSuffix) THEN c.oniondial ELSE c.dial

lookupFor(c, host) ==
    IF HasSuffix(host, onionSuffix) THEN c.onionlookup ELSE c.lookup

Destinations == {xyzOnion, onionSuffix, xyzOnionPort, a1234p, <<"o", "n", "i", "o", "n">>}

btcdDial(address) ==
    /\ ret = "cfg"
    /\ ncalls < MaxCalls
    /\ call' = [fn |-> "btcdDial", dest |-> address, used |-> dialFor(cfg, address)]
    /\ ncalls' = ncalls + 1
    /\ UNCHANGED <<in, pc, cfg, preCfg, serviceOpts, activeNetParams,
                   configFileError, ret, err, out, norm>>

btcdLookup(host) ==
    /\ ret = "cfg"
    /\ ncalls < MaxCalls
    /\ call' = [fn |-> "btcdLookup", dest |-> host, used |-> lookupFor(cfg, host)]
    /\ ncalls' = ncalls + 1
    /\ UNCHANGED <<in, pc, cfg, preCfg, serviceOpts, activeNetParams,
                   configFileError, ret, err, out, norm>>

(***************************************************************************)
(* The inputs: families of command lines, files and environments, each     *)
(* varying the options one part of loadConfig reads.                       *)
(***************************************************************************)
Both(A, B) == {a @@ b : a \in A, b \in B}

proxyAddr == "127.0.0.1:9050"
onionAddr == "127.0.0.1:9150"

mainKey == [valid |-> TRUE, net |-> "mainnet"]
testKey == [valid |-> TRUE, net |-> "testnet"]
badKey == [valid |-> FALSE, net |-> ""]

ArgsNetworks ==
    Both(Opt("TestNet3", {TRUE}),
         Both(Opt("RegressionTest", {TRUE}), Opt("SimNet", {TRUE})))

\* the three sources of a plain option, and the file that is or is not read
InputsMerge ==
    LET args == Both(ArgsNetworks,
                     Both(Opt("ConfigFile", {defaultConfigFile, customConfigFile}),
                          Opt("RPCUser", {"cliuser"})))
        file == Both(Opt("TestNet3", {TRUE, FALSE}),
                     Both(Opt("RegressionTest", {TRUE}),
                          Both(Opt("RPCUser", {"fileuser"}),
                               Opt("RPCPass", {"filepass"}))))
    IN {Input(a, f, Env) : a \in args, f \in file}
       \cup {Input(a, NoOptions, [Env EXCEPT !.fileStatus = st]) :
                a \in args, st \in {"missing", "unreadable", "malformed"}}

InputsPlain ==
    LET args == Both(Opt("RegressionTest", {TRUE}),
                     Both(Opt("BanDuration", {2000}),
                          Both(Opt("DbType", {"memdb"}), Opt("NoOnion", {TRUE}))))
        file == Both(Opt("BanDuration", {3000}),
                     Both(Opt("DbType", {"leveldb"}),
                          Both(Opt("NoOnion", {TRUE, FALSE}),
                               Opt("BlockMaxSize", {500000}))))
    IN {Input(a, f, Env) : a \in args, f \in file}

\* peers and listeners from the file and from the command line
InputsPeers ==
    LET args == Both(Opt("RegressionTest", {TRUE}),
                Both(Opt("AddPeers", {<<a5678>>}),
                Both(Opt("ConnectPeers", {<<a5678>>}),
                Both(Opt("Listeners", {<<a1234>>}),
                Both(Opt("Proxy", {proxyAddr}),
                     Opt("ConfigFile", {customConfigFile}))))))
        file == Both(Opt("RegressionTest", {TRUE}),
                Both(Opt("AddPeers", {<<a1234>>}),
                Both(Opt("ConnectPeers", {<<a1234>>}),
                     Opt("Listeners", {<<a1234p>>}))))
    IN {Input(a, f, Env) : a \in args, f \in file}

\* the early exits and the failures of the sources
InputsEarly ==
    LET args == Both(Opt("ShowVersion", {TRUE}),
                Both(Opt("ServiceCommand", {"install"}),
                     Opt("DebugLevel", {<<"show">>})))
        file == Opt("DebugLevel", {<<"bogus">>})
        envs == {[Env EXCEPT !.homeDirOk = h, !.windows = w, !.svcErr = s,
                             !.argsErr = e, !.argsBefore = b, !.fileStatus = st] :
                    h \in BOOLEAN, w \in BOOLEAN, s \in BOOLEAN,
                    e \in {"none", "help", "parse"},
                    b \in SUBSET {"ShowVersion", "ServiceCommand"},
                    st \in {"ok", "missing", "unreadable", "malformed"}}
    IN {i \in {Input(a, f, env) : a \in args, f \in file, env \in envs} :
          \* the service options exist on Windows only; the Windows command
          \* lines of the model are those with a service command
          /\ "ServiceCommand" \in DOMAIN i.args <=> i.windows
          /\ i.argsBefore \subseteq DOMAIN i.args
          /\ i.argsErr = "none" => i.argsBefore = {}
          /\ i.svcErr => "ServiceCommand" \in DOMAIN i.args
          /\ i.fileStatus # "ok" => DOMAIN i.file = {}}

BlockSizes == {0, 999, 1000, 600000, 999000, 999001}

InputsBlock ==
    LET args == Both(Opt("BlockMinSize", BlockSizes),
                Both(Opt("BlockPrioritySize", BlockSizes),
                     Opt("BlockMaxSize", BlockSizes)))
    IN {Input(a, NoOptions, Env) : a \in args}

InputsProxy ==
    LET opts == Both(Opt("Proxy", {proxyAddr}),
                Both(Opt("OnionProxy", {onionAddr}), Opt("NoOnion", {TRUE})))
    IN {Input(a, f, Env) : a \in opts, f \in opts}

InputsRPC ==
    LET args == Both(Opt("RPCUser", {"a", ""}),
                Both(Opt("RPCPass", {"b"}),
                Both(Opt("DisableRPC", {TRUE}),
                Both(Opt("RPCListeners", {<<a1234>>}),
                     Opt("TestNet3", {TRUE}) \cup Opt("SimNet", {TRUE})))))
        envs == {[Env EXCEPT !.localhost = l] :
                    l \in {<<>>, <<ip4Loopback>>, <<ip6Loopback>>,
                           <<ip6Loopback, ip4Loopback>>, <<ip4Loopback, ip4Loopback>>}}
                \cup {[Env EXCEPT !.lookupErr = TRUE, !.localhost = <<>>]}
    IN {Input(a, NoOptions, env) : a \in args, env \in envs}

\* configurations that violate several checks at once
InputsChecks ==
    LET args == Both(Opt("TestNet3", {TRUE}),
                Both(Opt("RegressionTest", {TRUE}),
                Both(Opt("DebugLevel", {<<"bogus">>}),
                Both(Opt("DbType", {"memdb", "bogus"}),
                Both(Opt("Profile", {<<"8", "0", "8", "0">>, <<"8", "0">>}),
                Both(Opt("BanDuration", {999}),
                Both(Opt("AddPeers", {<<a1234>>}),
                Both(Opt("BlockMaxSize", {999}),
                     Opt("GetWorkKeys", {<<mainKey>>, <<badKey>>})))))))))
    IN {Input(a, f, Env) : a \in args, f \in Opt("ConnectPeers", {<<a5678>>})}

\* violated checks around the "show" exit and a failing localhost lookup
InputsOrder ==
    LET args == Both(Opt("DebugLevel", {<<"show">>}),
                Both(Opt("DbType", {"bogus"}),
                Both(Opt("BlockMaxSize", {999}),
                     Opt("GetWorkKeys", {<<badKey>>}))))
        rpc == [RPCUser |-> "a", RPCPass |-> "b"]
    IN {Input(a @@ rpc, NoOptions, [Env EXCEPT !.lookupErr = l, !.localhost = <<>>]) :
           a \in args, l \in BOOLEAN}

DebugLevels ==
    {<<>>, <<"bogus">>, <<"debug">>, <<"critical">>,
     <<"PEER", "=", "debug">>, <<"PEER", "=", "loud">>, <<"PEER", "=">>,
     <<"XXXX", "=", "info">>, <<"=", "info">>,
     <<"PEER", "=", "trace", ",", "RPCS">>,
     <<"PEER", "=", "trace", ",", "RPCS", "=", "warn">>,
     <<"PEER", "=", "trace", ",", "XXXX", "=", "warn">>,
     <<"PEER", "=", "trace", "=", "warn">>, <<"PEER", ",">>}

Profiles ==
    {<<>>, <<"1", "0", "2", "3">>, <<"1", "0", "2", "4">>,
     <<"6", "5", "5", "3", "5">>, <<"6", "5", "5", "3", "6">>,
     <<"a", "b", "c">>, <<"-", "1">>, <<"+", "2", "0", "0", "0">>, <<"+">>,
     <<"0", "0", "1", "0", "2", "4">>, <<"0", "6", "5", "5", "3", "6">>,
     <<"3", "0", "0", "0", "0", "0", "0", "0", "0", "0">>,
     maxInt64.mag, minInt64.mag, <<"-">> \o minInt64.mag,
     <<"-", "0">>, <<"1", "0", "2", "4", " ">>,
     maxUint64, maxUint64 \o <<"x">>, <<"-">> \o maxUint64 \o <<"0", "x">>,
     <<"9">> \o maxUint64 \o <<"x", "1">>}

InputsValues ==
    {Input(a, NoOptions, Env) :
        a \in Opt("DebugLevel", DebugLevels) \cup Opt("Profile", Profiles)
              \cup Opt("BanDuration", {0, 999, 1000, 1001})
              \cup Both(Opt("TestNet3", {TRUE}),
                        Opt("GetWorkKeys", {<<mainKey>>, <<testKey>>, <<badKey>>,
                                            <<mainKey, badKey>>, <<testKey, mainKey>>,
                                            <<mainKey, mainKey>>}))}

ListenAddrs == {<<>>, a1234, a1234p, ip6Loopback, ip6Bracketed, ip6Bracketed \o <<":">> \o port8333}

InputsAddresses ==
    LET lists == {<<x>> : x \in ListenAddrs} \cup {<<x, y>> : x, y \in ListenAddrs}
    IN {Input(a, NoOptions, Env) : a \in Opt("Listeners", lists) \cup Opt("AddPeers", lists)}

\* directories given on the command line and in the file: a home directory,
\* environment variables, elements to clean away, the empty path
DataDirs ==
    {<<"~", "/", "d">>, <<"~">>, <<"/", "x">>, <<"a", "/", ".", ".">>,
     <<".", ".", "/", ".", ".", "/", "b", "/">>, <<"$", "V", "/", "x">>,
     <<"$", "{", "V", "}", "/", "/", ".", "/", "y">>, <<"x", "$">>, <<>>}

InputsDirs ==
    LET args == Both(Opt("DataDir", DataDirs),
                Both(Opt("LogDir", {<<"l", "/", "/">>}),
                Both(Opt("TestNet3", {TRUE}), Opt("RegressionTest", {TRUE}))))
        file == Both(Opt("DataDir", {<<"/", "f">>, <<"~", "f">>}),
                     Opt("LogDir", {<<"$", "V">>}))
    IN {Input(a, f, Env) : a \in args, f \in file}

Inputs ==
    InputsDirs \cup InputsMerge \cup InputsPlain \cup InputsPeers \cup InputsEarly \cup InputsBlock
        \cup InputsProxy \cup InputsRPC \cup InputsChecks \cup InputsValues
        \cup InputsAddresses \cup InputsOrder

(***************************************************************************)
(* The run of loadConfig, and the calls on what it returned.               *)
(***************************************************************************)
Init ==
    /\ in \in Inputs
    /\ pc = "mkdir"
    /\ cfg = defaultConfig
    /\ preCfg = defaultConfig
    /\ serviceOpts = ""
    /\ activeNetParams = initialNetParams
    /\ configFileError = FALSE
    /\ ret = ""
    /\ err = ""
    /\ out = <<>>
    /\ call = NoCall
    /\ ncalls = 0
    /\ norm = NoNorm

Next ==
    \/ MkHomeDir
    \/ PreParse
    \/ ShowVersion
    \/ ServiceCommand
    \/ LoadFile
    \/ DropFilePeers
    \/ FinalParse
    \/ CheckNetworks
    \/ SelectNetwork
    \/ NamespaceDirs
    \/ ShowSubsystems
    \/ CheckDebugLevel
    \/ CheckDbType
    \/ CheckProfile
    \/ CheckBanDuration
    \/ CheckAddConnect
    \/ SetListenDefaults
    \/ SetRPCDefaults
    \/ CheckBlockSizes
    \/ CheckKeys
    \/ NormalizeLists
    \/ BuildStrategies
    \/ WarnAndReturn
    \/ \E address \in Destinations : btcdDial(address)
    \/ \E host \in Destinations : btcdLookup(host)

Spec == Init /\ [][Next]_vars

(***************************************************************************)
(* Properties of the load process.                                         *)
(***************************************************************************)
\* the final parse has succeeded: cfg holds the merged configuration
Merged == Contains(out, "parse") /\ in.argsErr = "none"

\* the options of the file as the file pass would read them
fileOptions == IF in.fileStatus = "ok" THEN in.file ELSE NoOptions

\* the command line makes loadConfig skip the default configuration file
fileSkipped ==
    /\ "RegressionTest" \in DOMAIN parsedArgs \/ "SimNet" \in DOMAIN parsedArgs
    /\ "ConfigFile" \in DOMAIN parsedArgs => parsedArgs["ConfigFile"] = defaultConfigFile

\* command line, else file, else default
byPrecedence(f, file) ==
    IF f \in DOMAIN in.args THEN in.args[f]
    ELSE IF f \in DOMAIN file THEN file[f]
    ELSE defaultConfig[f]

\* the value the claimed precedence gives a returned option: the data and
\* the log directory are returned cleaned, expanded and namespaced
returnedByPrecedence(f, file) ==
    IF f \in {"DataDir", "LogDir"}
    THEN Join(cleanAndExpandPath(byPrecedence(f, file)), netName(activeNetParams))
    ELSE byPrecedence(f, file)

\* the options a returned configuration holds as the sources gave them
SourcedFields == PlainFields \cup {"DataDir", "LogDir"}

\* C1 as stated: in every returned configuration each option has the value
\* of the command line if the command line set it, else the value of the
\* file if the file set it, else the default (the directories: that value
\* resolved and namespaced).
C1_PrecedenceAsStated ==
    ret = "cfg" =>
        \A f \in SourcedFields : cfg[f] = returnedByPrecedence(f, fileOptions)

\* C1, the part that holds: the precedence is kept among the sources
\* loadConfig reads; the file is not one of them when the command line
\* selects regtest or simnet and names no other configuration file.  Right
\* after the final parse this is so of every single-valued option, and of
\* the options loadConfig does not rewrite up to the return.
C1_PrecedenceOfSourcesRead ==
    LET file == IF fileSkipped THEN NoOptions ELSE fileOptions
    IN /\ (Merged /\ pc = "numnets") =>
            \A f \in Fields \ ListFields : cfg[f] = byPrecedence(f, file)
       /\ ret = "cfg" =>
            \A f \in SourcedFields : cfg[f] = returnedByPrecedence(f, file)
       /\ Merged => \A f \in PlainFields : cfg[f] = byPrecedence(f, file)

\* the network flags that are true in the merged configuration
netFlags == {f \in {"TestNet3", "RegressionTest", "SimNet"} : cfg[f]}

\* C2: once the network check has run on the merged flags, two or three true
\* flags have ended loadConfig with the "can't be used together" error and
\* no configuration; with zero or one the check has passed, and once the
\* network is chosen it is the one of the true flag, the main network for none.
C2_NetworkFlags ==
    (Merged /\ pc # "numnets") =>
        IF Cardinality(netFlags) >= 2
        THEN pc = "done" /\ ret = "nil" /\ err = "networks"
        ELSE /\ err # "networks"
             /\ pc # "selectnet" =>
                  /\ netFlags = {} => activeNetParams = "mainnet"
                  /\ netFlags = {"TestNet3"} => activeNetParams = "testnet"
                  /\ netFlags = {"RegressionTest"} => activeNetParams = "regtest"
                  /\ netFlags = {"SimNet"} => activeNetParams = "simnet"

\* C2 witness: the test network from the file and the simulation network
\* from the command line are rejected together.
C2_Witness ==
    /\ err = "networks" /\ ret = "nil"
    /\ "TestNet3" \in DOMAIN in.file /\ "SimNet" \in DOMAIN in.args
    /\ netFlags = {"TestNet3", "SimNet"}

\* C3 as stated: a returned configuration has BlockMaxSize in range and
\* BlockMinSize <= BlockPrioritySize <= BlockMaxSize.
C3_BlockSizesAsStated ==
    ret = "cfg" =>
        /\ cfg.BlockMaxSize >= 1000 /\ cfg.BlockMaxSize <= MaxBlockPayload - 1000
        /\ cfg.BlockMinSize <= cfg.BlockPrioritySize
        /\ cfg.BlockPrioritySize <= cfg.BlockMaxSize

\* C3, amended: with the merged BlockMaxSize outside [1000, MaxBlockPayload
\* - 1000] no configuration is returned; the block size check rejects for no
\* other reason; and a returned configuration has BlockMinSize and
\* BlockPrioritySize each limited to BlockMaxSize (the merged value, or
\* BlockMaxSize when that is smaller), in no order between the two.
C3_BlockSizes ==
    LET inRange == cfg.BlockMaxSize >= 1000 /\ cfg.BlockMaxSize <= MaxBlockPayload - 1000
        smaller(f) == IF byPrecedence(f, fileOptions) > cfg.BlockMaxSize
                      THEN cfg.BlockMaxSize
                      ELSE byPrecedence(f, fileOptions)
    IN /\ (Merged /\ ~inRange) =>
            /\ ret # "cfg"
            /\ pc \notin {"keys", "normalize", "strategies", "warn"}
       /\ err = "blockmaxsize" => ~inRange /\ ret = "nil"
       /\ (pc \in {"keys", "normalize", "strategies", "warn"} \/ ret = "cfg") =>
            /\ inRange
            /\ cfg.BlockMinSize <= cfg.BlockMaxSize
            /\ cfg.BlockPrioritySize <= cfg.BlockMaxSize
            /\ cfg.BlockMinSize = smaller("BlockMinSize")
            /\ cfg.BlockPrioritySize = smaller("BlockPrioritySize")

\* C3 witness: a minimum size above the maximum is returned limited to it,
\* and above the priority size.
C3_Witness ==
    /\ ret = "cfg"
    /\ "BlockMinSize" \in DOMAIN in.args
    /\ in.args["BlockMinSize"] > cfg.BlockMaxSize
    /\ cfg.BlockMinSize = cfg.BlockMaxSize
    /\ cfg.BlockMinSize > cfg.BlockPrioritySize

\* the four functions of a configuration
strategies(c) ==
    [dial |-> c.dial, lookup |-> c.lookup,
     oniondial |-> c.oniondial, onionlookup |-> c.onionlookup]

allSet(c) ==
    Unset \notin {c.dial, c.lookup, c.oniondial, c.onionlookup}

\* the rows of the table with a proxy
tableWithProxy(c) ==
    CASE c.OnionProxy = "" /\ ~c.NoOnion ->
            [dial |-> proxyDial(c.Proxy), lookup |-> torLookupIP(c.Proxy),
             oniondial |-> proxyDial(c.Proxy), onionlookup |-> torLookupIP(c.Proxy)]
      [] c.OnionProxy # "" /\ ~c.NoOnion ->
            [dial |-> proxyDial(c.Proxy), lookup |-> torLookupIP(c.Proxy),
             oniondial |-> proxyDial(c.OnionProxy),
             onionlookup |-> torLookupIP(c.OnionProxy)]
      [] c.NoOnion ->
            [dial |-> proxyDial(c.Proxy), lookup |-> netLookupIP,
             oniondial |-> torDisabled, onionlookup |-> torDisabled]

\* C4 as stated: a returned configuration has the four functions of the
\* table; without a proxy the onion pair is the normal pair, the system
\* dial and the system resolver.
C4_StrategiesAsStated ==
    ret = "cfg" =>
        /\ allSet(cfg)
        /\ strategies(cfg) =
             IF cfg.Proxy = ""
             THEN [dial |-> netDial, lookup |-> netLookupIP,
                   oniondial |-> netDial, onionlookup |-> netLookupIP]
             ELSE tableWithProxy(cfg)

\* C4, amended: a returned configuration has all four functions set, and
\* they are those of the table, where without a proxy the normal pair is
\* the system dial and the system resolver and the onion pair is: the
\* "tor has been disabled" failure with NoOnion; else the onion proxy's dial
\* and lookup when an onion proxy is set; else the normal pair.
C4_Strategies ==
    ret = "cfg" =>
        /\ allSet(cfg)
        /\ strategies(cfg) =
             IF cfg.Proxy # "" THEN tableWithProxy(cfg)
             ELSE IF cfg.NoOnion
             THEN [dial |-> netDial, lookup |-> netLookupIP,
                   oniondial |-> torDisabled, onionlookup |-> torDisabled]
             ELSE IF cfg.OnionProxy # ""
             THEN [dial |-> netDial, lookup |-> netLookupIP,
                   oniondial |-> proxyDial(cfg.OnionProxy),
                   onionlookup |-> torLookupIP(cfg.OnionProxy)]
             ELSE [dial |-> netDial, lookup |-> netLookupIP,
                   oniondial |-> netDial, onionlookup |-> netLookupIP]

\* C4 witness: no proxy and an onion proxy: the onion pair goes through the
\* onion proxy, the normal pair through the system.
C4_Witness ==
    /\ ret = "cfg"
    /\ cfg.Proxy = "" /\ cfg.OnionProxy = onionAddr /\ ~cfg.NoOnion
    /\ cfg.dial = netDial
    /\ cfg.oniondial = proxyDial(onionAddr)
    /\ cfg.onionlookup = torLookupIP(onionAddr)

\* the destinations that end with ".onion"
onionDestinations == {xyzOnion, onionSuffix}

\* C5: a call of btcdDial or btcdLookup is handed to the onion function for
\* the destinations that end with ".onion" and to the normal function for
\* every other one; with a proxy and NoOnion (with which loadConfig
\* returns a configuration when nothing else is set) the onion destinations
\* get the "tor has been disabled" error and a dial of any other
\* destination goes to the proxy's dial.
C5_Dispatch ==
    /\ call.fn = "btcdDial" =>
         call.used = IF call.dest \in onionDestinations THEN cfg.oniondial ELSE cfg.dial
    /\ call.fn = "btcdLookup" =>
         call.used = IF call.dest \in onionDestinations THEN cfg.onionlookup
                                                        ELSE cfg.lookup
    /\ (call.fn # "" /\ cfg.Proxy # "" /\ cfg.NoOnion) =>
         /\ call.dest \in onionDestinations => call.used = torDisabled
         /\ (call.dest \notin onionDestinations /\ call.fn = "btcdDial") =>
               call.used = proxyDial(cfg.Proxy)
    /\ (pc = "done" /\ in \in InputsProxy) => ret = "cfg"

\* C5 witness: with --proxy and --noonion, xyz.onion has been dialed and
\* refused.
C5_Witness ==
    /\ "Proxy" \in DOMAIN in.args /\ "NoOnion" \in DOMAIN in.args
    /\ call.fn = "btcdDial" /\ call.dest = xyzOnion
    /\ call.used = torDisabled
    /\ cfg.dial = proxyDial(proxyAddr)

(***************************************************************************)
(* normalizeAddresses on its own: a list of addresses over a small         *)
(* alphabet is normalized, and the result is normalized again.  Each call  *)
(* overwrites the entries of the slice it is passed and returns a new      *)
(* slice: the first call leaves addrs normalized entry by entry, the       *)
(* second does the same to once.                                           *)
(***************************************************************************)
AddrAlphabet == {"h", "8", ":", "[", "]"}
Addrs == UNION {[1..k -> AddrAlphabet] : k \in 0..MaxAddrLen}
AddrLists == UNION {[1..k -> Addrs] : k \in 0..MaxAddrs}

InitNorm ==
    /\ in = Input(NoOptions, NoOptions, Env)
    /\ pc = "normalizeAddresses"
    /\ cfg = defaultConfig
    /\ preCfg = defaultConfig
    /\ serviceOpts = ""
    /\ activeNetParams = initialNetParams
    /\ configFileError = FALSE
    /\ ret = ""
    /\ err = ""
    /\ out = <<>>
    /\ call = NoCall
    /\ ncalls = 0
    /\ norm \in {[stage |-> "start", addrs |-> l, port |-> <<"8">>,
                  once |-> <<>>, twice |-> <<>>] : l \in AddrLists}

NormalizeOnce ==
    /\ norm.stage = "start"
    /\ norm' = [norm EXCEPT !.stage = "once",
                            !.addrs = normalizedInPlace(norm.addrs, norm.port),
                            !.once = normalizeAddresses(norm.addrs, norm.port)]
    /\ UNCHANGED <<in, pc, cfg, preCfg, serviceOpts, activeNetParams,
                   configFileError, ret, err, out, call, ncalls>>

NormalizeAgain ==
    /\ norm.stage = "once"
    /\ norm' = [norm EXCEPT !.stage = "twice",
                            !.once = normalizedInPlace(norm.once, norm.port),
                            !.twice = normalizeAddresses(norm.once, norm.port)]
    /\ UNCHANGED <<in, pc, cfg, preCfg, serviceOpts, activeNetParams,
                   configFileError, ret, err, out, call, ncalls>>

NextNorm == NormalizeOnce \/ NormalizeAgain

SpecNorm == InitNorm /\ [][NextNorm]_vars

\* the entries of a list
Range(s) == {s[i] : i \in 1..Len(s)}

\* the entry carries a port: it splits into a host and a port
hasPort(addr) == SplitHostPort(addr).ok

noDuplicates(s) == \A i, j \in 1..Len(s) : s[i] = s[j] => i = j

\* the list with the default port added to the entries that carry none
withPorts(addrs, port) ==
    [i \in 1..Len(addrs) |-> IF hasPort(addrs[i]) THEN addrs[i]
                             ELSE JoinHostPort(addrs[i], port)]

\* the list s holds the entries of the list l, each once, in the order of
\* their first occurrence in l
inOrderOfFirstOccurrence(s, l) ==
    LET first(a) == CHOOSE i \in 1..Len(l) : l[i] = a /\ \A j \in 1..(i-1) : l[j] # a
    IN /\ noDuplicates(s)
       /\ Range(s) = Range(l)
       /\ \A i, j \in 1..Len(s) : i < j => first(s[i]) < first(s[j])

\* C6 as stated: the list a call of normalizeAddresses returns has a port in
\* every entry and no entry twice, keeps the entries in the order of their
\* first occurrence in the list passed, and is returned again when it is
\* normalized a second time.
C6_NormalizeAsStated ==
    [][/\ norm.stage = "start" =>
             /\ \A a \in Range(norm'.once) : hasPort(a)
             /\ inOrderOfFirstOccurrence(norm'.once, withPorts(norm.addrs, norm.port))
       /\ norm.stage = "once" => norm'.twice = norm.once]_vars

\* C6, the part that holds: no entry twice, the order of first occurrence,
\* for the first call and for the second.
C6_NoDuplicatesInOrder ==
    [][/\ norm.stage = "start" =>
             inOrderOfFirstOccurrence(norm'.once, withPorts(norm.addrs, norm.port))
       /\ norm.stage = "once" =>
             inOrderOfFirstOccurrence(norm'.twice, withPorts(norm.once, norm.port))]_vars

\* C7 as stated: a run whose merged AddPeers and ConnectPeers lists are both
\* non-empty ends with the mutual-exclusion error and no configuration, and
\* no returned configuration has both lists non-empty.
C7_AddConnectAsStated ==
    LET both == Len(cfg.AddPeers) > 0 /\ Len(cfg.ConnectPeers) > 0
    IN /\ (Merged /\ both /\ pc = "done") => ret = "nil" /\ err = "addconnect"
       /\ ret = "cfg" => ~both

\* C7, amended: once the final parse has left both the AddPeers and the
\* ConnectPeers list non-empty, loadConfig goes no further than the
\* add/connect check and returns no configuration; it ends with the
\* mutual-exclusion error, the error and the usage printed last, unless an
\* earlier check (network flags, debug level, database type, profile port,
\* ban duration) failed or the "show" exit ended it; the error is never
\* raised otherwise, and no returned configuration has both lists non-empty.
C7_AddConnectExclusive ==
    LET both == Len(cfg.AddPeers) > 0 /\ Len(cfg.ConnectPeers) > 0
    IN /\ (Merged /\ both) =>
            /\ ret # "cfg"
            /\ pc \notin {"listen", "rpc", "blocksize", "keys", "normalize",
                          "strategies", "warn"}
            /\ pc = "done" =>
                 \/ ret = "nil" /\ err = "addconnect"
                                /\ SubSeq(out, Len(out) - 1, Len(out)) = <<"stderr", "usage">>
                 \/ ret = "nil" /\ err \in {"networks", "debuglevel", "dbtype",
                                            "profile", "banduration"}
                 \/ ret = "exit0" /\ cfg.DebugLevel = <<"show">>
       /\ err = "addconnect" => both /\ ret = "nil"
       /\ ret = "cfg" => ~both

\* C7 witness: --addpeer on the command line and a connect peer in the
\* file end in the mutual-exclusion error.
C7_Witness ==
    /\ ret = "nil" /\ err = "addconnect"
    /\ "AddPeers" \in DOMAIN in.args /\ "ConnectPeers" \in DOMAIN in.file
    /\ "ConnectPeers" \notin DOMAIN in.args

\* C8: in a returned configuration DisableRPC is true when RPCUser or
\* RPCPass is empty, whatever norpc was; with both non-empty and norpc not
\* given RPC is not disabled, and if also no RPC listener was given the RPC
\* listeners are the addresses localhost resolved to, each with the RPC
\* port of the active network.
C8_RPCDefaults ==
    ret = "cfg" =>
        LET given(f) == f \in DOMAIN in.args \/ f \in DOMAIN fileOptions
            rpcPort == netParams(activeNetParams).rpcPort
        IN /\ (cfg.RPCUser = "" \/ cfg.RPCPass = "") => cfg.DisableRPC
           /\ (cfg.RPCUser # "" /\ cfg.RPCPass # "" /\ ~given("DisableRPC")) =>
                 ~cfg.DisableRPC
           /\ (cfg.RPCUser # "" /\ cfg.RPCPass # "" /\ ~cfg.DisableRPC
                 /\ ~given("RPCListeners")) =>
                 /\ \A l \in Range(cfg.RPCListeners) :
                       /\ SplitHostPort(l).ok
                       /\ SplitHostPort(l).port = rpcPort
                       /\ SplitHostPort(l).host \in Range(in.localhost)
                 /\ \A a \in Range(in.localhost) :
                       \E l \in Range(cfg.RPCListeners) : SplitHostPort(l).host = a

\* C8 witness: --testnet --rpcuser=a --rpcpass=b with localhost resolving to
\* ::1 and 127.0.0.1.
C8_Witness ==
    /\ ret = "cfg"
    /\ activeNetParams = "testnet"
    /\ cfg.RPCUser = "a" /\ cfg.RPCPass = "b" /\ ~cfg.DisableRPC
    /\ in.localhost = <<ip6Loopback, ip4Loopback>>
    /\ cfg.RPCListeners = << <<"[">> \o ip6Loopback \o <<"]", ":">> \o port18334,
                             ip4Loopback \o <<":">> \o port18334 >>

\* the command line asks for the version or (on Windows, where the service
\* options exist) for a service command
earlyExitRequested ==
    \/ "ShowVersion" \in DOMAIN in.args
    \/ in.windows /\ "ServiceCommand" \in DOMAIN in.args

\* the outputs of a run that took an early exit and did nothing else
earlyExitOutputs ==
    {<<"stdout:version">>, <<"service">>, <<"service", "stderr">>}

\* C9 as stated: a run whose command line has the version flag or a service
\* command, whatever else the command line and the file hold, ends with
\* that action and exit status 0, having read no file, made no final parse
\* and printed nothing else.  (The home directory is taken to exist.)
C9_EarlyExitAsStated ==
    (in.homeDirOk /\ earlyExitRequested /\ pc = "done") =>
        ret = "exit0" /\ out \in earlyExitOutputs

\* C9, the part that holds: once the pre-parse has set the version flag, or
\* (on Windows) a service command -- the flag stands in front of every
\* argument the parser rejects -- the run is at that exit or has taken it:
\* it printed the version, or ran the service command, and exited with
\* status 0, having read no file, made no final parse and printed nothing
\* else, whatever the rest of the command line, the file and the resolver
\* are.
C9_EarlyExitOfParsedFlag ==
    (in.homeDirOk /\ pc \notin {"mkdir", "preparse"}) =>
        /\ "ShowVersion" \in DOMAIN parsedArgs =>
              \/ pc = "version" /\ out = <<>>
              \/ pc = "done" /\ ret = "exit0" /\ out = <<"stdout:version">>
        /\ ("ShowVersion" \notin DOMAIN parsedArgs
              /\ "ServiceCommand" \in DOMAIN parsedArgs) =>
              \/ pc \in {"version", "service"} /\ out = <<>>
              \/ pc = "done" /\ ret = "exit0"
                    /\ out = IF in.svcErr THEN <<"service", "stderr">>
                                          ELSE <<"service">>

\* C10 as stated: a missing file does not fail loadConfig and its warning is
\* logged last, right before a configuration is returned, and on no other
\* path; any other failure of the file pass ends loadConfig at once with
\* the error and the usage printed and no configuration.
C10_FileErrorsAsStated ==
    LET fileRead == Contains(out, "readfile")
    IN /\ (fileRead /\ in.fileStatus = "missing") => err # "file"
       /\ Contains(out, "log:warn") =>
             /\ ret = "cfg" /\ in.fileStatus = "missing"
             /\ out[Len(out)] = "log:warn"
       /\ (ret = "cfg" /\ fileRead /\ in.fileStatus = "missing") =>
             out[Len(out)] = "log:warn"
       /\ (fileRead /\ in.fileStatus \notin {"ok", "missing"}) =>
             /\ pc = "done" /\ ret = "nil" /\ err = "file"
             /\ out = <<"readfile", "stderr", "usage">>

\* C10, the part that holds: the deferred warning is logged only as the
\* last output of a run that returns a configuration, and a malformed file
\* ends the run at once with the error and the usage.
C10_DeferredWarning ==
    LET fileRead == Contains(out, "readfile")
    IN /\ Contains(out, "log:warn") =>
             /\ ret = "cfg" /\ isPathError(in.fileStatus)
             /\ out[Len(out)] = "log:warn"
       /\ (fileRead /\ in.fileStatus = "malformed") =>
             /\ pc = "done" /\ ret = "nil" /\ err = "file"
             /\ out = <<"readfile", "stderr", "usage">>

\* the errors of the validation checks, in the order of the checks
checkErrors ==
    <<"networks", "debuglevel", "dbtype", "profile", "banduration",
      "addconnect", "blockmaxsize", "getworkkey decode", "getworkkey network">>

\* a diagnostic was written: on standard error, or by btcdLog.Errorf, whose
\* backend is the logger's business
diagnosed == Contains(out, "stderr") \/ Contains(out, "log:error")

\* the last two outputs are the error on standard error and the usage
endsWithErrorAndUsage ==
    Len(out) >= 2 /\ SubSeq(out, Len(out) - 1, Len(out)) = errorAndUsage

\* C11 as stated: every run of loadConfig that fails has written a
\* diagnostic and returns no configuration, the failure to resolve
\* localhost included, and every failed validation check has printed the
\* usage after its error.
C11_FailuresAsStated ==
    /\ err # "" => ret = "nil" /\ pc = "done" /\ diagnosed
    /\ err \in Range(checkErrors) => endsWithErrorAndUsage

\* C11, the part that holds: every failure but that of the localhost lookup
\* has written a diagnostic, every failed validation check has printed its
\* error and the usage last, and no failure returns a configuration.
C11_FailuresButLookup ==
    /\ err # "" => ret = "nil" /\ pc = "done"
    /\ (err # "" /\ err # "lookup") => diagnosed
    /\ err \in Range(checkErrors) => endsWithErrorAndUsage
    /\ err = "lookup" => out[Len(out)] = "lookup:localhost" /\ ~diagnosed

\* the configuration the two passes and the final parse leave in cfg
mergedConfig ==
    LET file == IF fileSkipped THEN NoOptions ELSE fileOptions
        c == parseInto(defaultConfig, file)
        kept == IF "RegressionTest" \in DOMAIN in.args /\ in.args["RegressionTest"]
                   /\ Len(c.AddPeers) > 0
                THEN [c EXCEPT !.AddPeers = <<>>]
                ELSE c
    IN parseInto(kept, in.args)

\* the network a configuration selects
netOf(c) == selectedNet(c, initialNetParams)

\* the debug level fails its check ("show" is no level: it asks for the
\* list of subsystems)
debugLevelInvalid(c) ==
    c.DebugLevel # <<"show">> /\ parseAndSetDebugLevels(c.DebugLevel) # ""

\* the error of the earliest violated check in the order of the claim,
\* "" when the configuration violates none
firstViolated(c) ==
    IF numNets(c) > 1 THEN "networks"
    ELSE IF debugLevelInvalid(c) THEN "debuglevel"
    ELSE IF ~validDbType(c.DbType) THEN "dbtype"
    ELSE IF c.Profile # <<>> /\ badProfilePort(c.Profile) THEN "profile"
    ELSE IF c.BanDuration < Second THEN "banduration"
    ELSE IF addAndConnectMixed(c) THEN "addconnect"
    ELSE IF blockMaxSizeOutOfRange(c) THEN "blockmaxsize"
    ELSE checkKeys(c.GetWorkKeys, netOf(c))

\* the number of checks a configuration violates
violations(c) ==
    Cardinality({k \in 1..8 :
        CASE k = 1 -> numNets(c) > 1
          [] k = 2 -> debugLevelInvalid(c)
          [] k = 3 -> ~validDbType(c.DbType)
          [] k = 4 -> c.Profile # <<>> /\ badProfilePort(c.Profile)
          [] k = 5 -> c.BanDuration < Second
          [] k = 6 -> addAndConnectMixed(c)
          [] k = 7 -> blockMaxSizeOutOfRange(c)
          [] k = 8 -> checkKeys(c.GetWorkKeys, netOf(c)) # ""})

\* C12 as stated: a run whose merged configuration violates several checks
\* ends with the error of the earliest violated check in the order network
\* flags, debug level, database type, profile port, ban duration,
\* add/connect, BlockMaxSize, payment addresses, printed last.
C12_CheckOrderAsStated ==
    (Merged /\ pc = "done" /\ violations(mergedConfig) >= 2) =>
        /\ ret = "nil"
        /\ err = firstViolated(mergedConfig)
        /\ endsWithErrorAndUsage

\* the configuration after the network is selected and the directories
\* are namespaced (400-424)
selected(c) ==
    withDirsNamespaced(IF ~c.TestNet3 /\ ~c.RegressionTest /\ c.SimNet
                       THEN [c EXCEPT !.DisableDNSSeed = TRUE]
                       ELSE c,
                       netOf(c))

\* the configuration after the listener and RPC defaults but for the lookup
defaulted(c) == withRPCDisabled(withListenDefaults(selected(c), netOf(c)))

\* the RPC listeners are to come from the lookup of localhost
needsLookup(c) == ~defaulted(c).DisableRPC /\ Len(defaulted(c).RPCListeners) = 0

\* the configuration after the lookup of localhost
resolved(c) ==
    IF needsLookup(c)
    THEN [defaulted(c) EXCEPT !.RPCListeners = localhostListeners(in.localhost, netOf(c))]
    ELSE defaulted(c)

\* the step that ends the run of a merged configuration: the earliest, in
\* the order of the code, of the violated checks, the "show" exit (before
\* the debug level) and a failed lookup of localhost (between add/connect
\* and BlockMaxSize); "" when nothing ends it
firstEnding(c) ==
    IF numNets(c) > 1 THEN "networks"
    ELSE IF c.DebugLevel = <<"show">> THEN "show"
    ELSE IF firstViolated(c) \in {"debuglevel", "dbtype", "profile", "banduration",
                                  "addconnect"}
    THEN firstViolated(c)
    ELSE IF needsLookup(c) /\ in.lookupErr THEN "lookup"
    ELSE firstViolated(c)

\* what a run has written when a check or the "show" exit e ends it
outputsUpTo(c, e) ==
    (IF Contains(out, "readfile") THEN <<"readfile">> ELSE <<>>)
        \o <<"parse">>
        \o (IF e \in {"blockmaxsize", "getworkkey decode", "getworkkey network"}
               /\ needsLookup(c)
            THEN <<"lookup:localhost">> ELSE <<>>)
        \o (IF e \in Range(checkErrors) THEN errorAndUsage
            ELSE IF e = "show" THEN <<"stdout:subsystems">>
            ELSE <<>>)

\* the configuration as the step e leaves it, no later step having run
configUpTo(c, e) ==
    CASE e = "networks" -> c
      [] e \in {"show", "debuglevel", "dbtype", "profile", "banduration",
                "addconnect"} -> selected(c)
      [] e = "lookup" -> defaulted(c)
      [] e = "blockmaxsize" -> resolved(c)
      [] OTHER -> withBlockSizesLimited(resolved(c))

\* C12, amended: the steps after the merge run in the order network flags,
\* "show" exit, debug level, database type, profile port, ban duration,
\* add/connect, lookup of localhost (when the RPC listeners come from it),
\* BlockMaxSize, payment addresses.  The run ends at the earliest step that
\* fails or exits: a violated check returns its own error with the error
\* and the usage printed last, and nothing of a later step has happened --
\* no output, no change of the configuration or of the active network.
C12_CheckOrder ==
    (Merged /\ pc = "done") =>
        LET m == mergedConfig
            e == firstEnding(m)
        IN /\ e = "" <=> ret = "cfg"
           /\ e = "show" <=> ret = "exit0"
           /\ e \notin {"", "show"} => ret = "nil" /\ err = e
           /\ e \in {"", "show"} => err = ""
           /\ e # "" =>
                 /\ e # "lookup" => out = outputsUpTo(m, e)
                 /\ e = "lookup" => ~Contains(out, "usage")
                 /\ cfg = configUpTo(m, e)
                 /\ activeNetParams = IF e = "networks" THEN initialNetParams
                                                        ELSE netOf(m)

\* C12 witness: an invalid database type, a profile port out of range and a
\* BlockMaxSize out of range end in the database type error.
C12_Witness ==
    /\ ret = "nil" /\ err = "dbtype"
    /\ cfg.Profile # <<>> /\ badProfilePort(cfg.Profile)
    /\ blockMaxSizeOutOfRange(cfg)
    /\ endsWithErrorAndUsage

\* the peers of list f that the source names, as normalizeAddresses leaves
\* them in the returned list
peersOf(source, f) ==
    IF f \in DOMAIN source
    THEN {normalizeAddress(source[f][i], netParams(activeNetParams).DefaultPort) :
             i \in 1..Len(source[f])}
    ELSE {}

\* the peers of list f that came from the configuration file only
onlyFromFile(f) == peersOf(fileOptions, f) \ peersOf(in.args, f)

\* C13 as stated: a returned configuration in regression test mode, the
\* mode set in the file or on the command line, has in AddPeers and in
\* ConnectPeers no peer that came from the configuration file only.
C13_RegtestPeersAsStated ==
    (ret = "cfg" /\ cfg.RegressionTest) =>
        \A f \in {"AddPeers", "ConnectPeers"} : onlyFromFile(f) \cap Range(cfg[f]) = {}

\* C13, the part that holds: with the regression test mode set on the
\* command line, the returned AddPeers has no peer that came from the
\* configuration file only.
C13_RegtestOnCommandLine ==
    (ret = "cfg" /\ "RegressionTest" \in DOMAIN in.args /\ in.args["RegressionTest"]) =>
        onlyFromFile("AddPeers") \cap Range(cfg.AddPeers) = {}

\* a listener address was supplied by the file, if it was read, or by the
\* command line
listenerSupplied ==
    \/ "Listeners" \in DOMAIN in.args
    \/ "Listeners" \in DOMAIN (IF fileSkipped THEN NoOptions ELSE fileOptions)

\* C14: in every returned configuration the Listeners list is non-empty; if
\* no listener address was supplied it is the default listener alone (all
\* interfaces, the default port of the active network), and DisableListen
\* is true nonetheless when a proxy or a connect peer is configured: the
\* decision is taken on the supplied list, before the default is added.
C14_ListenDefaults ==
    ret = "cfg" =>
        /\ Len(cfg.Listeners) > 0
        /\ ~listenerSupplied =>
              /\ cfg.Listeners =
                    <<JoinHostPort(<<>>, netParams(activeNetParams).DefaultPort)>>
              /\ (cfg.Proxy # "" \/ Len(cfg.ConnectPeers) > 0) => cfg.DisableListen

\* C14 witness: a proxy on the command line, a connect peer in the file and
\* no listener: listening is disabled and the default listener is in place.
C14_Witness ==
    /\ ret = "cfg"
    /\ ~listenerSupplied
    /\ "DisableListen" \notin DOMAIN in.args \cup DOMAIN in.file
    /\ cfg.Proxy = proxyAddr
    /\ "ConnectPeers" \in DOMAIN in.file /\ Len(cfg.ConnectPeers) > 0
    /\ cfg.DisableListen
    /\ cfg.Listeners = << <<":">> \o port8333 >>

=============================================================================
